---- MODULE Spec2Model ----
(***************************************************************************)
(* A model of createRapierPhysics (src/src/createRapierPhysics.ts): the    *)
(* factory that owns a RAPIER world, steps it on every 'update' event of a *)
(* Phaser scene, keeps the list of {rigidBody, collider, gameObject}       *)
(* triples and draws the engine's debug lines.                             *)
(*                                                                         *)
(* Optional values (T | undefined) are sequences of length at most one:    *)
(* <<>> is undefined and <<v>> is the value v.                             *)
(***************************************************************************)
EXTENDS Integers, Sequences, FiniteSets

\* ------------------------------------------------------------------ bounds
\* rigid bodies addRigidBody may create in one run
MaxBodies == 3
\* event queues createEventQueue may create in one run
MaxQueues == 2
\* largest physics-space coordinate of the rendering specification
MaxCoord == 1
\* collision events one step of the world may report
MaxEvents == 1

\* ---------------------------------------------------------- optional values
Undefined == <<>>
Some(v) == <<v>>
IsDefined(o) == o # <<>>
ValueOf(o) == o[1]
\* a ?? d
Nullish(o, d) == IF IsDefined(o) THEN ValueOf(o) ELSE d

\* ------------------------------------------------- RAPIER.RigidBodyType enum
Dynamic == 0
Fixed == 1
KinematicPositionBased == 2
KinematicVelocityBased == 3
RigidBodyType == {Dynamic, Fixed, KinematicPositionBased, KinematicVelocityBased}

\* The scene's game objects (opaque references, compared by identity).
GameObjects == {"g1", "g2"}

\* A RAPIER.RigidBodyDesc: RigidBodyDesc.dynamic(), .fixed(), ... carry their type.
RigidBodyDesc == [status : RigidBodyType]

\* The rigidBodyDesc argument of the helper: RAPIER.RigidBodyType | RAPIER.RigidBodyDesc.
NumberArg(n) == [typeof |-> "number", value |-> n]
ObjectArg(d) == [typeof |-> "object", value |-> d.status]

\* The helper's switch: the RigidBodyDesc a rigidBodyDesc argument selects.
SelectRigidBodyDesc(arg) ==
    IF arg.typeof = "number"
    THEN CASE arg.value = Dynamic -> [status |-> Dynamic]
           [] arg.value = Fixed -> [status |-> Fixed]
           [] arg.value = KinematicPositionBased -> [status |-> KinematicPositionBased]
           [] arg.value = KinematicVelocityBased -> [status |-> KinematicVelocityBased]
           [] OTHER -> [status |-> Dynamic]
    ELSE [status |-> arg.value]

\* rapierOptions?.rigidBodyType || rapierOptions?.rigidBodyDesc || RAPIER.RigidBodyType.Dynamic
\* (a || b yields a unless a is falsy: undefined and the number 0 are falsy, an object is not)
RigidBodyDescArg(options) ==
    IF IsDefined(options.rigidBodyType) /\ ValueOf(options.rigidBodyType) # 0
    THEN NumberArg(ValueOf(options.rigidBodyType))
    ELSE IF IsDefined(options.rigidBodyDesc)
         THEN ObjectArg(ValueOf(options.rigidBodyDesc))
         ELSE NumberArg(Dynamic)

VARIABLES
    world,               \* the RAPIER.World: its rigid bodies, its colliders, freed or not
    bodies,              \* the bodies array, index 1 first
    debugEnabled,        \* let debugEnabled
    eventQueue,          \* let eventQueue: undefined or the queue of the slot
    queues,              \* the event queues created so far: id -> freed or not, and
                         \* the collision events it holds
    listening,           \* whether update is a listener of the scene's 'update' event
    debugGraphics,       \* the lines the debug graphics object holds
    debugRenderSettings, \* the third argument of createRapierPhysics
    destroyCalls,        \* how many times gameObject.destroy() was called, per game object
    nextHandle,          \* the identity of the next rigid body and collider created
    lastCall             \* the latest operation: its name, arguments and result

vars == <<world, bodies, debugEnabled, eventQueue, queues, listening, debugGraphics,
          debugRenderSettings, destroyCalls, nextHandle, lastCall>>

\* ------------------------------------------------------------ the RAPIER world
\* f with x mapped to v (x added to its domain when new)
Put(f, x, v) == [y \in DOMAIN f \cup {x} |-> IF y = x THEN v ELSE f[y]]
\* f without the keys in S
Without(f, S) == [y \in DOMAIN f \ S |-> f[y]]
EmptyMap == [y \in {} |-> 0]

\* new RAPIER.World(gravity)
NewWorld == [rigidBodies |-> EmptyMap, colliders |-> EmptyMap, freed |-> FALSE]

\* world.createRigidBody(desc): a new body, at the origin, of the desc's type and userData
CreateRigidBody(w, desc, h) ==
    [w EXCEPT !.rigidBodies =
        Put(@, h, [bodyType |-> desc.status, userData |-> desc.userData,
                   translation |-> "origin", rotation |-> "identity"])]

\* world.createCollider(colliderDesc, rigidBody): a new collider attached to rigidBody
CreateCollider(w, colliderDesc, parent, h) ==
    [w EXCEPT !.colliders = Put(@, h, [shape |-> colliderDesc, parent |-> parent])]

\* world.removeRigidBody(rigidBody): the body leaves the world with the colliders attached
\* to it (a freed world holds no body and the call changes nothing)
RemoveRigidBody(w, h) ==
    [w EXCEPT !.rigidBodies = Without(@, {h}),
              !.colliders = Without(@, {c \in DOMAIN @ : @[c].parent = h})]

\* rigidBody.setTranslation(t, false)
SetTranslation(w, h, t) == [w EXCEPT !.rigidBodies[h].translation = t]
\* rigidBody.setRotation(r, false)
SetRotation(w, h, r) == [w EXCEPT !.rigidBodies[h].rotation = r]

\* world.free(): every set of the world is released
FreeWorld(w) == [rigidBodies |-> EmptyMap, colliders |-> EmptyMap, freed |-> TRUE]

\* ------------------------------------------------ the helper addRigidBody (l.23)
\* A variant of the helper that creates the collider without its parent body.
AddRigidBodyHelperDetached(w, gameObject, rigidBodyDesc, colliderDesc, h) ==
    LET selected == SelectRigidBodyDesc(rigidBodyDesc)
        desc == [status |-> selected.status, userData |-> gameObject]
        w1 == CreateRigidBody(w, desc, h)
        w2 == CreateCollider(w1, colliderDesc, 0, h)
    IN  [world |-> w2,
         body |-> [rigidBody |-> h, collider |-> h, gameObject |-> gameObject]]

\* The world after the helper and the triple it returns; h identifies the new objects.
AddRigidBodyHelper(w, gameObject, rigidBodyDesc, colliderDesc, h) ==
    LET selected == SelectRigidBodyDesc(rigidBodyDesc)
        \* _rigidBodyDesc.setUserData(gameObject)
        desc == [status |-> selected.status, userData |-> gameObject]
        w1 == CreateRigidBody(w, desc, h)
        w2 == CreateCollider(w1, colliderDesc, h, h)
    IN  [world |-> w2,
         body |-> [rigidBody |-> h, collider |-> h, gameObject |-> gameObject]]

\* ------------------------------------------------------------- addRigidBody
\* The rapierOptions the model passes.
ColliderDescs == {"cuboid"}
OptionalTypes == {Undefined} \cup {Some(t) : t \in RigidBodyType}
OptionalDescs == {Undefined} \cup {Some(d) : d \in RigidBodyDesc}
\* every combination of type and description, spawned in place, and a fixed body
\* spawned at a translation and a rotation
TypeOptions ==
    [rigidBodyType : OptionalTypes, rigidBodyDesc : OptionalDescs,
     collider : ColliderDescs, translation : {Undefined}, rotation : {Undefined}]
    \cup
    { [rigidBodyType |-> Some(Fixed), rigidBodyDesc |-> Undefined, collider |-> "cuboid",
       translation |-> Some("t1"), rotation |-> Some("r1")] }
\* the options of the main specification: a collider and nothing else
CoreOptions ==
    { [rigidBodyType |-> Undefined, rigidBodyDesc |-> Undefined, collider |-> "cuboid",
       translation |-> Undefined, rotation |-> Undefined] }

\* A variant of unshift that appends: bodies.push(_body).
Push(list, e) == list \o <<e>>

\* bodies.unshift(_body)
Unshift(list, e) == <<e>> \o list

AddRigidBody(gameObject, rapierOptions) ==
    /\ nextHandle <= MaxBodies
    /\ IF world.freed
       THEN \* world.createRigidBody throws on a freed world, before anything is stored
            /\ lastCall' = [op |-> "addRigidBody", gameObject |-> gameObject,
                            threw |-> TRUE]
            /\ UNCHANGED <<world, bodies, nextHandle>>
       ELSE LET made == AddRigidBodyHelper(world, gameObject,
                            RigidBodyDescArg(rapierOptions), rapierOptions.collider,
                            nextHandle)
                _body == made.body
                w1 == IF IsDefined(rapierOptions.translation)
                      THEN SetTranslation(made.world, _body.rigidBody,
                                          ValueOf(rapierOptions.translation))
                      ELSE made.world
                w2 == IF IsDefined(rapierOptions.rotation)
                      THEN SetRotation(w1, _body.rigidBody, ValueOf(rapierOptions.rotation))
                      ELSE w1
            IN  /\ world' = w2
                /\ bodies' = Unshift(bodies, _body)
                /\ nextHandle' = nextHandle + 1
                /\ lastCall' = [op |-> "addRigidBody", gameObject |-> gameObject,
                                threw |-> FALSE,
                                rigidBodyType |-> rapierOptions.rigidBodyType,
                                rigidBodyDesc |-> rapierOptions.rigidBodyDesc,
                                ret |-> [collider |-> _body.collider,
                                         rigidBody |-> _body.rigidBody,
                                         gameObject |-> _body.gameObject]]
    /\ UNCHANGED <<debugEnabled, eventQueue, queues, listening, debugGraphics,
                   debugRenderSettings, destroyCalls>>

\* ------------------------------------------------------------------ debugger
\* A variant of debugger that disables the renderer without clearing the surface.
DebuggerNoClear(enable) ==
    LET en == Nullish(enable, TRUE)
    IN  /\ debugEnabled' = en
        /\ debugGraphics' = debugGraphics
        /\ lastCall' = [op |-> "debugger", enable |-> enable, cleared |-> 0]
        /\ UNCHANGED <<world, bodies, eventQueue, queues, listening, debugRenderSettings,
                       destroyCalls, nextHandle>>

Debugger(enable) ==
    LET en == Nullish(enable, TRUE)
    IN  /\ debugEnabled' = en
        /\ debugGraphics' = IF ~en THEN <<>> ELSE debugGraphics
        /\ lastCall' = [op |-> "debugger", enable |-> enable,
                        cleared |-> IF ~en THEN Len(debugGraphics) ELSE 0]
        /\ UNCHANGED <<world, bodies, eventQueue, queues, listening, debugRenderSettings,
                       destroyCalls, nextHandle>>

\* ------------------------------------------------------------------- destroy
\* bodies.find(b => b.gameObject === gameObject): the index of the first match, 0 if none
Find(list, gameObject) ==
    LET hits == {i \in 1..Len(list) : list[i].gameObject = gameObject}
    IN  IF hits = {} THEN 0 ELSE CHOOSE i \in hits : \A j \in hits : i <= j

\* bodies.indexOf(body) for the entry of rigid body h, counted from 0; -1 if absent
IndexOf(list, h) ==
    LET hits == {i \in 1..Len(list) : list[i].rigidBody = h}
    IN  IF hits = {} THEN -1 ELSE (CHOOSE i \in hits : \A j \in hits : i <= j) - 1

\* A variant of splice that removes nothing.
SpliceNone(list, index) == list

\* A variant of splice that removes the first element whatever the index: bodies.shift().
SpliceFirst(list, index) == SubSeq(list, 2, Len(list))

\* bodies.splice(index, 1), index counted from 0
Splice(list, index) ==
    SubSeq(list, 1, index) \o SubSeq(list, index + 2, Len(list))

\* A variant of destroy that calls gameObject.destroy() outside the test for an entry.
DestroyUnguarded(gameObject) ==
    LET found == Find(bodies, gameObject)
    IN  /\ IF found # 0
           THEN LET body == bodies[found]
                    index == IndexOf(bodies, body.rigidBody)
                IN  /\ world' = RemoveRigidBody(world, body.rigidBody)
                    /\ bodies' = IF index > -1 THEN Splice(bodies, index) ELSE bodies
           ELSE UNCHANGED <<world, bodies>>
        /\ destroyCalls' = [destroyCalls EXCEPT ![gameObject] = @ + 1]
        /\ lastCall' = [op |-> "destroy", gameObject |-> gameObject, found |-> found # 0]
        /\ UNCHANGED <<debugEnabled, eventQueue, queues, listening, debugGraphics,
                       debugRenderSettings, nextHandle>>

Destroy(gameObject) ==
    LET found == Find(bodies, gameObject)
    IN  /\ IF found # 0
           THEN LET body == bodies[found]
                    index == IndexOf(bodies, body.rigidBody)
                IN  /\ world' = RemoveRigidBody(world, body.rigidBody)
                    /\ destroyCalls' = [destroyCalls EXCEPT ![body.gameObject] = @ + 1]
                    /\ bodies' = IF index > -1 THEN Splice(bodies, index) ELSE bodies
           ELSE UNCHANGED <<world, destroyCalls, bodies>>
        /\ lastCall' = [op |-> "destroy", gameObject |-> gameObject, found |-> found # 0]
        /\ UNCHANGED <<debugEnabled, eventQueue, queues, listening, debugGraphics,
                       debugRenderSettings, nextHandle>>

\* ------------------------------------------------------------ createEventQueue
\* new RAPIER.EventQueue(true); the handle returned with queue q is identified by q
CreateEventQueue ==
    LET q == Cardinality(DOMAIN queues) + 1
    IN  /\ q <= MaxQueues
        /\ queues' = Put(queues, q, [freed |-> FALSE, collisionEvents |-> 0])
        /\ eventQueue' = Some(q)
        /\ lastCall' = [op |-> "createEventQueue", ret |-> [eventQueue |-> q, free |-> q]]
        /\ UNCHANGED <<world, bodies, debugEnabled, listening, debugGraphics,
                       debugRenderSettings, destroyCalls, nextHandle>>

\* A variant of the free function that frees the queue and leaves it in the slot.
QueueFreeKeepsSlot(q) ==
    /\ q \in DOMAIN queues
    /\ IF IsDefined(eventQueue)
       THEN queues' = [queues EXCEPT ![ValueOf(eventQueue)].freed = TRUE]
       ELSE UNCHANGED queues
    /\ lastCall' = [op |-> "queueFree", handle |-> q, slot |-> eventQueue]
    /\ UNCHANGED <<world, bodies, debugEnabled, eventQueue, listening, debugGraphics,
                   debugRenderSettings, destroyCalls, nextHandle>>

\* The free function returned by the createEventQueue call that returned queue q.
QueueFree(q) ==
    /\ q \in DOMAIN queues
    /\ IF IsDefined(eventQueue)
       THEN /\ queues' = [queues EXCEPT ![ValueOf(eventQueue)].freed = TRUE]
            /\ eventQueue' = Undefined
       ELSE UNCHANGED <<queues, eventQueue>>
    /\ lastCall' = [op |-> "queueFree", handle |-> q, slot |-> eventQueue]
    /\ UNCHANGED <<world, bodies, debugEnabled, listening, debugGraphics,
                   debugRenderSettings, destroyCalls, nextHandle>>

\* ---------------------------------------------------------------------- free
\* A variant of free that leaves update registered on the scene.
FreeKeepsListener ==
    /\ world' = FreeWorld(world)
    /\ lastCall' = [op |-> "free"]
    /\ UNCHANGED <<bodies, debugEnabled, eventQueue, queues, listening, debugGraphics,
                   debugRenderSettings, destroyCalls, nextHandle>>

Free ==
    /\ world' = FreeWorld(world)
    /\ listening' = FALSE
    /\ lastCall' = [op |-> "free"]
    /\ UNCHANGED <<bodies, debugEnabled, eventQueue, queues, debugGraphics,
                   debugRenderSettings, destroyCalls, nextHandle>>

\* -------------------------------------------------------------------- update
\* Numbers read from a Float32Array are optional: an index outside the array reads
\* undefined, and arithmetic on undefined yields NaN, written Undefined as well.
At(buffer, i) == IF i + 1 <= Len(buffer) THEN Some(buffer[i + 1]) ELSE Undefined
Mul(a, b) == IF IsDefined(a) /\ IsDefined(b) THEN Some(ValueOf(a) * ValueOf(b)) ELSE Undefined
Add(a, b) == IF IsDefined(a) /\ IsDefined(b) THEN Some(ValueOf(a) + ValueOf(b)) ELSE Undefined
Sub(a, b) == IF IsDefined(a) /\ IsDefined(b) THEN Some(ValueOf(a) - ValueOf(b)) ELSE Undefined

\* debugRenderSettings?.field
SettingsField(settings, field) ==
    IF IsDefined(settings) THEN ValueOf(settings)[field] ELSE Undefined

\* Phaser.Display.Color.GetColor(red, green, blue) = red << 16 | green << 8 | blue,
\* where NaN converts to 0
GetColor(red, green, blue) ==
    Nullish(red, 0) * 65536 + Nullish(green, 0) * 256 + Nullish(blue, 0)

\* const colorIndex = i * 2
ColorIndex(i) == i * 2

\* A variant of the loop body that adds the z term instead of subtracting it.
DebugLineAddsZ(vertices, colors, settings, i) ==
    LET x1 == At(vertices, i)
        y1 == At(vertices, i + 1)
        z1 == At(vertices, i + 2)
        x2 == At(vertices, i + 3)
        y2 == At(vertices, i + 4)
        z2 == At(vertices, i + 5)
        colorIndex == ColorIndex(i)
        r == At(colors, colorIndex)
        g == At(colors, colorIndex + 1)
        b == At(colors, colorIndex + 2)
        a == At(colors, colorIndex + 3)
        xShear == Some(Nullish(SettingsField(settings, "xShear"), 0))
        xScale == Some(Nullish(SettingsField(settings, "xScale"), 1))
        yScale == Some(Nullish(SettingsField(settings, "yScale"), 1))
        zScale == Some(Nullish(SettingsField(settings, "zScale"), 1))
    IN  [width |-> 2,
         color |-> GetColor(Mul(r, Some(255)), Mul(g, Some(255)), Mul(b, Some(255))),
         alpha |-> a,
         x1 |-> Add(Mul(x1, xScale), Mul(y1, xShear)),
         y1 |-> Add(Sub(Mul(y1, yScale), Mul(x1, xShear)), Mul(zScale, z1)),
         x2 |-> Add(Mul(x2, xScale), Mul(y2, xShear)),
         y2 |-> Add(Sub(Mul(y2, yScale), Mul(x2, xShear)), Mul(zScale, z2))]

\* One pass of the loop body, for the index i: the line lineBetween adds, in the style
\* lineStyle set just before.
DebugLine(vertices, colors, settings, i) ==
    LET x1 == At(vertices, i)
        y1 == At(vertices, i + 1)
        z1 == At(vertices, i + 2)
        x2 == At(vertices, i + 3)
        y2 == At(vertices, i + 4)
        z2 == At(vertices, i + 5)
        colorIndex == ColorIndex(i)
        r == At(colors, colorIndex)
        g == At(colors, colorIndex + 1)
        b == At(colors, colorIndex + 2)
        a == At(colors, colorIndex + 3)
        xShear == Some(Nullish(SettingsField(settings, "xShear"), 0))
        xScale == Some(Nullish(SettingsField(settings, "xScale"), 1))
        yScale == Some(Nullish(SettingsField(settings, "yScale"), 1))
        zScale == Some(Nullish(SettingsField(settings, "zScale"), 1))
    IN  [width |-> 2,
         color |-> GetColor(Mul(r, Some(255)), Mul(g, Some(255)), Mul(b, Some(255))),
         alpha |-> a,
         x1 |-> Add(Mul(x1, xScale), Mul(y1, xShear)),
         y1 |-> Sub(Sub(Mul(y1, yScale), Mul(x1, xShear)), Mul(zScale, z1)),
         x2 |-> Add(Mul(x2, xScale), Mul(y2, xShear)),
         y2 |-> Sub(Sub(Mul(y2, yScale), Mul(x2, xShear)), Mul(zScale, z2))]

\* for (let i = 0; i < vertices.length; i += 6): the lines drawn, in order
DebugLines(vertices, colors, settings) ==
    [k \in 1..((Len(vertices) + 5) \div 6) |->
        DebugLine(vertices, colors, settings, 6 * (k - 1))]

\* world.step(eventQueue) and world.step(): one step of the world, with the queue given
WorldStep(w, queue) == [steps |-> 1, queue |-> queue]

\* What world.step(eventQueue) leaves in the queue: the collision events of the step.
Reported(qs, queue, events) ==
    [qs EXCEPT ![queue].collisionEvents = @ + events]

\* eventQueue.drainCollisionEvents(f): f is called on every event and the queue is empty
DrainCollisionEvents(qs, queue) ==
    [qs EXCEPT ![queue].collisionEvents = 0]

\* debugGraphics.clear()
Clear(graphics) == <<>>

\* A variant of the debug pass that draws without clearing the surface first.
DrawDebugNoClear(graphics, debugRender, settings) ==
    graphics \o DebugLines(debugRender.vertices, debugRender.colors, settings)

\* The debug pass of update: the surface is cleared and the lines of the frame drawn.
DrawDebug(graphics, debugRender, settings) ==
    Clear(graphics) \o DebugLines(debugRender.vertices, debugRender.colors, settings)

\* A variant of update that forgets the step in the branch with an event queue.
UpdateNoStepWithQueue(debugRender, events) ==
    LET stepped == IF IsDefined(eventQueue)
                   THEN [steps |-> 0, queue |-> eventQueue]
                   ELSE WorldStep(world, Undefined)
    IN  /\ lastCall' = [op |-> "update", steps |-> stepped.steps, queue |-> stepped.queue,
                        drained |-> 0,
                        debugRender |-> IF debugEnabled THEN Some(debugRender)
                                        ELSE Undefined]
        /\ debugGraphics' =
              IF debugEnabled
              THEN DrawDebug(debugGraphics, debugRender, debugRenderSettings)
              ELSE debugGraphics
        /\ UNCHANGED <<world, bodies, debugEnabled, eventQueue, queues, listening,
                       debugRenderSettings, destroyCalls, nextHandle>>

\* A variant of update that steps with the queue and never drains it.
UpdateNoDrain(debugRender, events) ==
    LET stepped == IF IsDefined(eventQueue)
                   THEN WorldStep(world, eventQueue)
                   ELSE WorldStep(world, Undefined)
    IN  /\ queues' = IF IsDefined(eventQueue)
                     THEN Reported(queues, ValueOf(eventQueue), events)
                     ELSE queues
        /\ lastCall' = [op |-> "update", steps |-> stepped.steps, queue |-> stepped.queue,
                        drained |-> 0,
                        debugRender |-> IF debugEnabled THEN Some(debugRender)
                                        ELSE Undefined]
        /\ debugGraphics' =
              IF debugEnabled
              THEN DrawDebug(debugGraphics, debugRender, debugRenderSettings)
              ELSE debugGraphics
        /\ UNCHANGED <<world, bodies, debugEnabled, eventQueue, listening,
                       debugRenderSettings, destroyCalls, nextHandle>>

\* The update callback; debugRender is what world.debugRender() returns in this frame
\* and events is the number of collision events the step reports.
Update(debugRender, events) ==
    LET stepped == IF IsDefined(eventQueue)
                   THEN WorldStep(world, eventQueue)
                   ELSE WorldStep(world, Undefined)
        reported == IF IsDefined(eventQueue)
                    THEN Reported(queues, ValueOf(eventQueue), events)
                    ELSE queues
    IN  /\ queues' = IF IsDefined(eventQueue)
                     THEN DrainCollisionEvents(reported, ValueOf(eventQueue))
                     ELSE reported
        /\ lastCall' = [op |-> "update", steps |-> stepped.steps, queue |-> stepped.queue,
                        drained |-> IF IsDefined(eventQueue)
                                    THEN reported[ValueOf(eventQueue)].collisionEvents
                                    ELSE 0,
                        debugRender |-> IF debugEnabled THEN Some(debugRender)
                                        ELSE Undefined]
        /\ debugGraphics' =
              IF debugEnabled
              THEN DrawDebug(debugGraphics, debugRender, debugRenderSettings)
              ELSE debugGraphics
        /\ UNCHANGED <<world, bodies, debugEnabled, eventQueue, listening,
                       debugRenderSettings, destroyCalls, nextHandle>>

\* scene.events.emit('update'): the listeners registered for 'update' run
SceneUpdate(debugRender, events) ==
    IF listening
    THEN Update(debugRender, events)
    ELSE /\ lastCall' = [op |-> "update", steps |-> 0, queue |-> Undefined,
                         drained |-> 0, debugRender |-> Undefined]
         /\ UNCHANGED <<world, bodies, debugEnabled, eventQueue, queues, listening,
                        debugGraphics, debugRenderSettings, destroyCalls, nextHandle>>

\* ------------------------------------------------ what the engine's renderer returns
\* 8 colour floats per line: RGBA of each endpoint. Line k (from 0) is given the colours
\* (k mod 2, 1, 0, 1) at its first endpoint and (0, k mod 2, 1, 1) at its second.
ColorsOf(n) ==
    [j \in 1..(8 * n) |->
        LET k == (j - 1) \div 8
            c == (j - 1) % 8
        IN  CASE c = 0 -> k % 2
              [] c = 1 -> 1
              [] c = 2 -> 0
              [] c = 3 -> 1
              [] c = 4 -> 0
              [] c = 5 -> k % 2
              [] c = 6 -> 1
              [] OTHER -> 1]

Render(vertices) == [vertices |-> vertices, colors |-> ColorsOf(Len(vertices) \div 6)]

\* the frames of the main specification: nothing to draw, one line, three lines
CoreRenders ==
    { Render(<<>>),
      Render(<<0, 1, 1, 1, 0, 1>>),
      Render(<<0, 0, 0, 1, 0, 0,  1, 0, 0, 1, 1, 0,  1, 1, 0, 1, 1, 1>>) }

\* the frames of the rendering specification: one line from every point (a, b, c) over
\* the coordinates to the point (b, c, a)
Coords == (0 - 1)..MaxCoord
LineRenders ==
    { Render(<<a, b, c, b, c, a>>) : a \in Coords, b \in Coords, c \in Coords }

\* the debugRenderSettings the model constructs the factory with
Shears == {Undefined, Some(0), Some(1)}
Scales == {Undefined, Some(1), Some(2)}
AllSettings ==
    {Undefined} \cup
    {Some(s) : s \in [xShear : Shears, xScale : Scales, yScale : Scales, zScale : Scales]}
CoreSettings == {Undefined}

\* ------------------------------------------------------- createRapierPhysics
\* The state when createRapierPhysics(gravity, scene, settings) returns.
CreateRapierPhysics(settings) ==
    /\ debugEnabled = FALSE
    /\ eventQueue = Undefined
    /\ world = NewWorld
    /\ debugGraphics = <<>>
    /\ bodies = <<>>
    /\ listening = TRUE
    /\ debugRenderSettings = settings
    /\ queues = EmptyMap
    /\ destroyCalls = [g \in GameObjects |-> 0]
    /\ nextHandle = 1
    /\ lastCall = [op |-> "createRapierPhysics"]

\* ------------------------------------------------------------ specifications
Init == \E settings \in CoreSettings : CreateRapierPhysics(settings)

Next ==
    \/ \E g \in GameObjects, o \in CoreOptions : AddRigidBody(g, o)
    \/ \E g \in GameObjects : Destroy(g)
    \/ \E enable \in {Undefined, Some(TRUE), Some(FALSE)} : Debugger(enable)
    \/ CreateEventQueue
    \/ \E q \in 1..MaxQueues : QueueFree(q)
    \/ \E r \in CoreRenders, n \in 0..MaxEvents : SceneUpdate(r, n)
    \/ Free

Spec == Init /\ [][Next]_vars

\* Registration with every combination of rigidBodyType and rigidBodyDesc, and with a
\* translation and a rotation.
NextTypes ==
    \/ \E g \in GameObjects, o \in TypeOptions : AddRigidBody(g, o)
    \/ \E g \in GameObjects : Destroy(g)
    \/ Free

SpecTypes == Init /\ [][NextTypes]_vars

\* Registration and removal alone: sequences of addRigidBody and destroy calls.
NextBodies ==
    \/ \E g \in GameObjects, o \in TypeOptions : AddRigidBody(g, o)
    \/ \E g \in GameObjects : Destroy(g)

SpecBodies == Init /\ [][NextBodies]_vars

\* Debug rendering under every setting, for every line over the coordinates.
InitRender == \E settings \in AllSettings : CreateRapierPhysics(settings)

NextRender ==
    \/ \E enable \in {Undefined, Some(TRUE), Some(FALSE)} : Debugger(enable)
    \/ \E r \in LineRenders \cup CoreRenders : SceneUpdate(r, 0)
    \/ Free

SpecRender == InitRender /\ [][NextRender]_vars

\* ==================================================================== claims
\* The rigid bodies of the world that addRigidBody created for the game object g.
WorldBodiesOf(w, g) == {h \in DOMAIN w.rigidBodies : w.rigidBodies[h].userData = g}
\* The positions of the bodies list whose entry is for g.
EntriesOf(list, g) == {i \in 1..Len(list) : list[i].gameObject = g}

\* C1: after destroy(g) returns, the bodies list holds no entry whose gameObject is g
\* and the world holds no rigid body that addRigidBody created for g, however many
\* times g was registered. (Stated as claimed; the code removes one entry only.)
C1_DestroyRemovesEveryBodyOfG ==
    lastCall.op = "destroy" =>
        /\ EntriesOf(bodies, lastCall.gameObject) = {}
        /\ WorldBodiesOf(world, lastCall.gameObject) = {}

\* C2: destroy(g) for a game object g with no entry in the bodies list is a no-op: the
\* bodies list, the rigid bodies of the world, the debug flag and the event-queue slot
\* stay as they were and g.destroy() is not called.
C2_DestroyAbsentIsNoOp ==
    [][\A g \in GameObjects :
          (lastCall'.op = "destroy" /\ lastCall'.gameObject = g /\ EntriesOf(bodies, g) = {})
          => /\ bodies' = bodies
             /\ world'.rigidBodies = world.rigidBodies
             /\ debugEnabled' = debugEnabled
             /\ eventQueue' = eventQueue
             /\ destroyCalls' = destroyCalls]_vars

\* C2 witness: destroy was called for an object without an entry while the list held
\* another object's entry, the renderer was enabled and an event queue was set.
C2_Witness ==
    /\ lastCall.op = "destroy"
    /\ ~lastCall.found
    /\ Len(bodies) > 0
    /\ debugEnabled
    /\ IsDefined(eventQueue)

\* C3: every 'update' event the scene emits between createRapierPhysics and free()
\* advances the world by exactly one step, with or without an event queue and with the
\* debug renderer enabled or not.
C3_UpdateStepsOnce ==
    (lastCall.op = "update" /\ ~world.freed) => lastCall.steps = 1

\* C3 witness: a frame ran with an event queue set and the renderer enabled.
C3_Witness ==
    /\ lastCall.op = "update"
    /\ ~world.freed
    /\ IsDefined(lastCall.queue)
    /\ debugEnabled

\* C4: free() frees the world and removes the update listener, and no 'update' event
\* emitted after free() steps the world.
C4_NoStepAfterFree ==
    /\ lastCall.op = "free" => (world.freed /\ ~listening)
    /\ world.freed => ~listening
    /\ (world.freed /\ lastCall.op = "update") => lastCall.steps = 0

\* C4 witness: the scene emitted 'update' after free().
C4_Witness == world.freed /\ lastCall.op = "update"

\* C5: each call addRigidBody(g, options) that returns creates exactly one new rigid
\* body in the world and exactly one new collider attached to that body, adds exactly
\* one entry {rigidBody, collider, gameObject: g} to the bodies list, and returns a
\* triple holding that rigid body, that collider and g.
C5_AddRigidBodyCreatesOne ==
    [][\A g \in GameObjects :
          (lastCall'.op = "addRigidBody" /\ lastCall'.gameObject = g /\ ~lastCall'.threw)
          => LET ret == lastCall'.ret
                 entry == [rigidBody |-> ret.rigidBody, collider |-> ret.collider,
                           gameObject |-> g]
             IN  /\ DOMAIN world.rigidBodies \subseteq DOMAIN world'.rigidBodies
                 /\ DOMAIN world'.rigidBodies \ DOMAIN world.rigidBodies = {ret.rigidBody}
                 /\ \A h \in DOMAIN world.rigidBodies :
                        world'.rigidBodies[h] = world.rigidBodies[h]
                 /\ world'.colliders = Put(world.colliders, ret.collider,
                                           world'.colliders[ret.collider])
                 /\ ret.collider \notin DOMAIN world.colliders
                 /\ world'.colliders[ret.collider].parent = ret.rigidBody
                 /\ ret.gameObject = g
                 /\ Len(bodies') = Len(bodies) + 1
                 /\ \E i \in 1..Len(bodies') :
                        /\ bodies'[i] = entry
                        /\ SubSeq(bodies', 1, i - 1) \o SubSeq(bodies', i + 1, Len(bodies'))
                               = bodies
                 /\ \A i \in 1..Len(bodies) : bodies[i] # entry]_vars

\* C5 witness: addRigidBody returned a triple for its game object, with a body spawned
\* at a translation, when the list already held two entries.
C5_Witness ==
    /\ lastCall.op = "addRigidBody"
    /\ ~lastCall.threw
    /\ lastCall.ret.gameObject = lastCall.gameObject
    /\ world.rigidBodies[lastCall.ret.rigidBody].translation = "t1"
    /\ Len(bodies) >= 3

\* C6: when rapierOptions.rigidBodyType is supplied, the rigid body created has that
\* type, for each of the four types, whether or not rigidBodyDesc is supplied as well.
\* (Stated as claimed; the code ignores a supplied type of Dynamic, which is 0.)
C6_SuppliedTypeIsUsed ==
    (lastCall.op = "addRigidBody" /\ ~lastCall.threw /\ IsDefined(lastCall.rigidBodyType))
    => world.rigidBodies[lastCall.ret.rigidBody].bodyType = ValueOf(lastCall.rigidBodyType)

\* C7: the free function returned by a call to createEventQueue releases the event
\* queue returned alongside it by that call, after any sequence of createEventQueue
\* and free calls, and frames then step the world without that queue. (Stated as
\* claimed; the code releases the queue of the slot, whichever call created it.)
C7_FreeReleasesItsOwnQueue ==
    lastCall.op = "queueFree" =>
        /\ queues[lastCall.handle].freed
        /\ eventQueue # Some(lastCall.handle)

\* C8: debug lines are drawn only while the renderer is enabled: it starts disabled,
\* debugger() and debugger(true) enable it, debugger(false) disables it and clears the
\* surface, and whenever it is disabled the surface holds no line.
C8_DisabledSurfaceIsEmpty ==
    /\ lastCall.op = "createRapierPhysics" => ~debugEnabled
    /\ (lastCall.op = "debugger" /\ lastCall.enable \in {Undefined, Some(TRUE)})
           => debugEnabled
    /\ (lastCall.op = "debugger" /\ lastCall.enable = Some(FALSE))
           => (~debugEnabled /\ debugGraphics = <<>>)
    /\ ~debugEnabled => debugGraphics = <<>>

\* C8 witness: debugger(false) was called on a surface that held lines.
C8_Witness ==
    /\ lastCall.op = "debugger"
    /\ lastCall.enable = Some(FALSE)
    /\ lastCall.cleared > 0

\* The setting the claim gives a field: its value, or the default when it is omitted
\* or no settings were passed.
ClaimedSetting(field, default) ==
    IF debugRenderSettings = Undefined THEN default
    ELSE IF ValueOf(debugRenderSettings)[field] = Undefined THEN default
         ELSE ValueOf(debugRenderSettings)[field][1]

\* C9: the line for the physics-space endpoints (x1,y1,z1), (x2,y2,z2) is drawn from
\* (x1*xScale + y1*xShear, y1*yScale - x1*xShear - zScale*z1) to
\* (x2*xScale + y2*xShear, y2*yScale - x2*xShear - zScale*z2), an omitted xShear being 0
\* and an omitted scale 1; with no settings (x, y, z) maps to (x, y - z).
C9_LineEndpoints ==
    (lastCall.op = "update" /\ IsDefined(lastCall.debugRender))
    => LET v == ValueOf(lastCall.debugRender).vertices
           xShear == ClaimedSetting("xShear", 0)
           xScale == ClaimedSetting("xScale", 1)
           yScale == ClaimedSetting("yScale", 1)
           zScale == ClaimedSetting("zScale", 1)
       IN  /\ Len(debugGraphics) = Len(v) \div 6
           /\ \A k \in 1..(Len(v) \div 6) :
                 LET x1 == v[6 * k - 5]
                     y1 == v[6 * k - 4]
                     z1 == v[6 * k - 3]
                     x2 == v[6 * k - 2]
                     y2 == v[6 * k - 1]
                     z2 == v[6 * k]
                     line == debugGraphics[k]
                 IN  /\ line.x1 = <<x1 * xScale + y1 * xShear>>
                     /\ line.y1 = <<y1 * yScale - x1 * xShear - zScale * z1>>
                     /\ line.x2 = <<x2 * xScale + y2 * xShear>>
                     /\ line.y2 = <<y2 * yScale - x2 * xShear - zScale * z2>>
                     /\ debugRenderSettings = Undefined =>
                            /\ line.x1 = <<x1>> /\ line.y1 = <<y1 - z1>>
                            /\ line.x2 = <<x2>> /\ line.y2 = <<y2 - z2>>

\* C9 witness: a line with non-zero coordinates was drawn under a shear of 1, a z scale
\* of 2 and an omitted x scale.
C9_Witness ==
    /\ lastCall.op = "update"
    /\ IsDefined(lastCall.debugRender)
    /\ IsDefined(debugRenderSettings)
    /\ ValueOf(debugRenderSettings).xShear = Some(1)
    /\ ValueOf(debugRenderSettings).zScale = Some(2)
    /\ ValueOf(debugRenderSettings).xScale = Undefined
    /\ Len(debugGraphics) = 1
    /\ ValueOf(lastCall.debugRender).vertices = <<1, 0 - 1, 1, 0 - 1, 1, 1>>

\* The entries of a list that are not for the game object g, in the list's order.
OtherEntries(list, g) ==
    LET NotG(e) == e.gameObject # g
    IN  SelectSeq(list, NotG)

\* C10: destroy(g) leaves every list entry whose gameObject is not g, and the rigid
\* body of every such entry, unchanged and in the same relative order; it calls
\* destroy() on no game object other than g and changes neither the debug flag nor the
\* event-queue slot.
C10_DestroyFrame ==
    [][\A g \in GameObjects :
          (lastCall'.op = "destroy" /\ lastCall'.gameObject = g)
          => /\ OtherEntries(bodies', g) = OtherEntries(bodies, g)
             /\ \A i \in 1..Len(bodies) :
                   (bodies[i].gameObject # g /\ bodies[i].rigidBody \in DOMAIN world.rigidBodies)
                   => /\ bodies[i].rigidBody \in DOMAIN world'.rigidBodies
                      /\ world'.rigidBodies[bodies[i].rigidBody]
                             = world.rigidBodies[bodies[i].rigidBody]
             /\ \A o \in GameObjects \ {g} : destroyCalls'[o] = destroyCalls[o]
             /\ debugEnabled' = debugEnabled
             /\ eventQueue' = eventQueue]_vars

\* C10 witness: destroy(g) found an entry and left two entries of another object, one
\* registered before g's entry and one after it.
C10_Witness ==
    /\ lastCall.op = "destroy"
    /\ lastCall.found
    /\ Len(bodies) = 2
    /\ \A i \in 1..2 : bodies[i].gameObject # lastCall.gameObject
    /\ bodies[1].rigidBody = 3
    /\ bodies[2].rigidBody = 1

\* C11: addRigidBody prepends its entry, so the bodies list is always in reverse
\* registration order (rigid bodies are numbered in the order of their creation), and
\* when a game object g has several entries destroy(g) removes exactly one of them, the
\* most recently registered, and removes only that entry's rigid body from the world.
C11_NewestEntryFirst ==
    [][/\ \A i \in 1..Len(bodies') : \A j \in 1..Len(bodies') :
             i < j => bodies'[i].rigidBody > bodies'[j].rigidBody
       /\ \A g \in GameObjects :
             (lastCall'.op = "destroy" /\ lastCall'.gameObject = g
                 /\ Cardinality(EntriesOf(bodies, g)) > 1)
             => LET newest == CHOOSE i \in EntriesOf(bodies, g) :
                                 \A j \in EntriesOf(bodies, g) :
                                     bodies[i].rigidBody >= bodies[j].rigidBody
                IN  /\ Cardinality(EntriesOf(bodies', g))
                           = Cardinality(EntriesOf(bodies, g)) - 1
                    /\ bodies' = SubSeq(bodies, 1, newest - 1)
                                     \o SubSeq(bodies, newest + 1, Len(bodies))
                    /\ DOMAIN world'.rigidBodies
                           = DOMAIN world.rigidBodies \ {bodies[newest].rigidBody}
                    /\ \A h \in DOMAIN world'.rigidBodies :
                           world'.rigidBodies[h] = world.rigidBodies[h]]_vars

\* C11 witness: destroy(g) ran on a list of three entries, two of them for g, and the
\* older entry of g is still in the list behind another object's newer entry.
C11_Witness ==
    /\ lastCall.op = "destroy"
    /\ lastCall.found
    /\ Len(bodies) = 2
    /\ bodies[1].gameObject # lastCall.gameObject
    /\ bodies[2].gameObject = lastCall.gameObject
    /\ bodies[2].rigidBody \in DOMAIN world.rigidBodies
    /\ nextHandle = 4

\* C12: while an event queue is set, each frame steps the world with that queue and
\* drains all of its collision events inside the same update callback, so at the end of
\* every frame no queue returned to a caller holds an undrained collision event.
C12_QueueDrainedEachFrame ==
    /\ (lastCall.op = "update" /\ lastCall.steps = 1 /\ IsDefined(eventQueue))
           => lastCall.queue = eventQueue
    /\ \A q \in DOMAIN queues : queues[q].collisionEvents = 0

\* C12 witness: a frame stepped the world with the queue of the slot, the step reported
\* a collision event and the frame drained it.
C12_Witness ==
    /\ lastCall.op = "update"
    /\ IsDefined(eventQueue)
    /\ lastCall.queue = eventQueue
    /\ lastCall.drained > 0

\* C13: each debug-enabled frame clears the surface before drawing: after it the
\* surface holds exactly one line per group of 6 floats of the vertex buffer the engine
\* returned for that frame, in order, and no line of an earlier frame.
C13_SurfaceHoldsThisFrameOnly ==
    (lastCall.op = "update" /\ IsDefined(lastCall.debugRender))
    => LET render == ValueOf(lastCall.debugRender)
       IN  /\ Len(debugGraphics) = Len(render.vertices) \div 6
           /\ \A k \in 1..Len(debugGraphics) :
                 debugGraphics[k] = DebugLine(render.vertices, render.colors,
                                              debugRenderSettings, 6 * (k - 1))

\* C13 witness: a debug-enabled frame drew the three lines of an 18-float buffer.
C13_Witness ==
    /\ lastCall.op = "update"
    /\ IsDefined(lastCall.debugRender)
    /\ Len(ValueOf(lastCall.debugRender).vertices) = 18
    /\ Len(debugGraphics) = 3

\* The rigid bodies the entries of a list refer to.
ListedBodies(list) == {list[i].rigidBody : i \in 1..Len(list)}
\* The sum of f over the game objects in S.
RECURSIVE SumOver(_, _)
SumOver(f, S) ==
    IF S = {} THEN 0
    ELSE LET g == CHOOSE x \in S : TRUE IN f[g] + SumOver(f, S \ {g})

\* C14: after any sequence of addRigidBody and destroy calls the rigid bodies the list
\* refers to are pairwise distinct and are exactly the rigid bodies of the world, and
\* the length of the list is the number of addRigidBody calls minus the number of
\* destroy calls that found an entry.
C14_ListMatchesWorld ==
    /\ \A i \in 1..Len(bodies) : \A j \in 1..Len(bodies) :
          bodies[i].rigidBody = bodies[j].rigidBody => i = j
    /\ ListedBodies(bodies) = DOMAIN world.rigidBodies
    /\ Len(bodies) = (nextHandle - 1) - SumOver(destroyCalls, GameObjects)

\* C14 witness: three bodies were registered, one destroy call found its entry and two
\* entries are left.
C14_Witness ==
    /\ nextHandle = 4
    /\ lastCall.op = "destroy"
    /\ lastCall.found
    /\ Len(bodies) = 2

\* C15: under every interleaving of createEventQueue calls, calls of the free functions
\* returned (repeated, or of earlier queues) and frames, the world is never stepped with
\* an event queue that a free function has released, and a free function called when the
\* slot is empty changes nothing.
C15_NoStepWithFreedQueue ==
    [][/\ IsDefined(eventQueue') => ~queues'[ValueOf(eventQueue')].freed
       /\ (lastCall'.op = "update" /\ IsDefined(lastCall'.queue))
              => ~queues[ValueOf(lastCall'.queue)].freed
       /\ (lastCall'.op = "queueFree" /\ ~IsDefined(eventQueue))
              => UNCHANGED <<world, bodies, debugEnabled, eventQueue, queues, listening,
                             debugGraphics, debugRenderSettings, destroyCalls,
                             nextHandle>>]_vars

\* C15 witness: a frame stepped the world with the second queue after a free function
\* had released the first.
C15_Witness ==
    /\ lastCall.op = "update"
    /\ lastCall.queue = Some(2)
    /\ queues[1].freed
    /\ ~queues[2].freed

\* C16: with 6 vertex floats and 8 colour floats per line segment, the renderer reads
\* the colour of segment k from the colour floats of the first endpoint of segment k,
\* at the indices 8k..8k+3, and every colour index it reads lies inside the colour
\* buffer. (Stated as claimed; the code reads at 12k..12k+3.)
C16_ColourOfFirstEndpoint ==
    (lastCall.op = "update" /\ IsDefined(lastCall.debugRender))
    => LET render == ValueOf(lastCall.debugRender)
           colors == render.colors
       IN  \A k \in 0..(Len(render.vertices) \div 6 - 1) :
              /\ ColorIndex(6 * k) = 8 * k
              /\ ColorIndex(6 * k) + 3 < Len(colors)
              /\ debugGraphics[k + 1].color
                     = GetColor(Some(colors[8 * k + 1] * 255), Some(colors[8 * k + 2] * 255),
                                Some(colors[8 * k + 3] * 255))
              /\ debugGraphics[k + 1].alpha = Some(colors[8 * k + 4])

====
